---- MODULE Spec2Model ----
(***************************************************************************)
(* Model of demo.py: a linear script that constructs an API client, calls  *)
(* client.text_to_speech.convert once, opens output.mp3 in "wb" mode,      *)
(* writes every non-empty chunk of the returned stream to it, leaves the   *)
(* with-block (closing the handle) and prints a confirmation.              *)
(*                                                                         *)
(* The vendor library, the remote service and the filesystem are the       *)
(* environment: what they deliver (chunks, end of stream) and where they   *)
(* raise is chosen nondeterministically.  The file content modelled is the *)
(* logical content (the bytes handed to f.write, in order).  Re-running    *)
(* the script is the action Rerun; the file on disk survives it.           *)
(***************************************************************************)
EXTENDS Integers, Sequences, FiniteSets, TLC

\* ---- bounds ----
MaxChunks == 3      \* chunks the service delivers in one run
MaxRuns == 2        \* successive runs of the script

\* Byte blocks the service may yield: an empty one, a one-byte and a two-byte
\* block (distinct, so that drops, duplicates and re-orderings are visible).
Chunks == { <<>>, <<1>>, <<1, 2>> }

\* The state of output.mp3 before the first run: absent, empty, or holding
\* bytes that no chunk contains.
InitialFiles ==
    { [exists |-> FALSE, content |-> <<>>],
      [exists |-> TRUE,  content |-> <<>>],
      [exists |-> TRUE,  content |-> <<9, 1>>] }

VARIABLES
    pc,           \* position in the script: "client", "convert", "open",
                  \* "loop", "print", "done", "failed"
    run,          \* number of the current run
    fileExists,   \* output.mp3 exists on disk
    fileContent,  \* byte content of output.mp3
    prevExists,   \* fileExists when the current run started
    prevContent,  \* fileContent when the current run started
    handle,       \* f: "none", "open", "closed"
    delivered,    \* chunks the loop has taken from audio_stream, in order
    writes,       \* number of f.write calls made in this run
    partial,      \* bytes a failing f.write put out before it raised
    requests,     \* requests the service received in this run, in order
    printed,      \* number of confirmation messages printed in this run
    failedAt,     \* step that raised: "none", "client", "convert", "open",
                  \* "iter", "write"
    exitCode      \* -1 while running, 0 on normal completion, 1 on failure

vars == << pc, run, fileExists, fileContent, prevExists, prevContent, handle,
           delivered, writes, partial, requests, printed, failedAt, exitCode >>

\* ---- helpers ----
IsPrefix(s, t) == Len(s) <= Len(t) /\ SubSeq(t, 1, Len(s)) = s

Prefixes(s) == { SubSeq(s, 1, n) : n \in 0..Len(s) }

RECURSIVE Concat(_)
Concat(cs) == IF cs = <<>> THEN <<>> ELSE Head(cs) \o Concat(Tail(cs))

NonEmpty(cs) == SelectSeq(cs, LAMBDA c : c # <<>>)

\* ---- the script's pure parts ----

\* Variant of Request: the text is passed through a clean-up that drops the
\* final full stop.
RequestAltered ==
    [ voice_id      |-> "JBFqnCBsd6RMkjVDRZzb",
      model_id      |-> "eleven_multilingual_v2",
      output_format |-> "mp3_44100_128",
      text          |-> "The first move is what sets everything in motion" ]

\* Lines 7-12: the keyword arguments of the convert call.
Request ==
    [ voice_id      |-> "JBFqnCBsd6RMkjVDRZzb",
      model_id      |-> "eleven_multilingual_v2",
      output_format |-> "mp3_44100_128",
      text          |-> "The first move is what sets everything in motion." ]

\* Variant of Truncate: mode "ab", which keeps what the file held.
TruncateKeep(old) == old

\* Line 14: mode "wb" discards whatever the file held.
Truncate(old) == <<>>

\* Variant of WriteChunk: the chunk is put in front of the content.
WriteChunkReordered(content, chunk) ==
    IF chunk # <<>> THEN chunk \o content ELSE content

\* Variant of WriteChunk: the chunk is written twice.
WriteChunkTwice(content, chunk) ==
    IF chunk # <<>> THEN content \o chunk \o chunk ELSE content

\* Lines 16-17: a chunk is written only if it is truthy (non-empty).
WriteChunk(content, chunk) ==
    IF chunk # <<>> THEN content \o chunk ELSE content

WriteCalls(chunk) == IF chunk # <<>> THEN 1 ELSE 0

\* An uncaught exception: the traceback is printed and the process exits 1.
Raise(step) ==
    /\ pc' = "failed"
    /\ failedAt' = step
    /\ exitCode' = 1

\* ---- Init ----
Init ==
    /\ pc = "client"
    /\ run = 1
    /\ \E f \in InitialFiles :
          /\ fileExists = f.exists
          /\ fileContent = f.content
          /\ prevExists = f.exists
          /\ prevContent = f.content
    /\ handle = "none"
    /\ delivered = <<>>
    /\ writes = 0
    /\ partial = <<>>
    /\ requests = <<>>
    /\ printed = 0
    /\ failedAt = "none"
    /\ exitCode = -1

\* ---- lines 3-5: client = ElevenLabs(api_key=...) ----
ClientOK ==
    /\ pc = "client"
    /\ pc' = "convert"
    /\ UNCHANGED << run, fileExists, fileContent, prevExists, prevContent,
                    handle, delivered, writes, partial, requests, printed,
                    failedAt, exitCode >>

ClientFail ==
    /\ pc = "client"
    /\ Raise("client")
    /\ UNCHANGED << run, fileExists, fileContent, prevExists, prevContent,
                    handle, delivered, writes, partial, requests, printed >>

\* Variant of ConvertFail: the failed call is issued again.
ConvertFailRetry ==
    /\ pc = "convert"
    /\ Len(requests) < 2
    /\ requests' = Append(requests, Request)
    /\ failedAt' = "convert"
    /\ UNCHANGED << pc, run, fileExists, fileContent, prevExists, prevContent,
                    handle, delivered, writes, partial, printed, exitCode >>

\* ---- lines 7-12: audio_stream = client.text_to_speech.convert(...) ----
ConvertOK ==
    /\ pc = "convert"
    /\ requests' = Append(requests, Request)
    /\ pc' = "open"
    /\ UNCHANGED << run, fileExists, fileContent, prevExists, prevContent,
                    handle, delivered, writes, partial, printed, failedAt,
                    exitCode >>

ConvertFail ==
    /\ pc = "convert"
    /\ requests' = Append(requests, Request)
    /\ Raise("convert")
    /\ UNCHANGED << run, fileExists, fileContent, prevExists, prevContent,
                    handle, delivered, writes, partial, printed >>

\* Variant of OpenOK: the file is created by the first write, not by open.
OpenOKNoCreate ==
    /\ pc = "open"
    /\ fileContent' = Truncate(fileContent)
    /\ handle' = "open"
    /\ pc' = "loop"
    /\ UNCHANGED << run, fileExists, prevExists, prevContent, delivered,
                    writes, partial, requests, printed, failedAt, exitCode >>

\* Variant of OpenFail: the file is truncated although open raises.
OpenFailTruncated ==
    /\ pc = "open"
    /\ fileExists' = TRUE
    /\ fileContent' = <<>>
    /\ Raise("open")
    /\ UNCHANGED << run, prevExists, prevContent, handle, delivered, writes,
                    partial, requests, printed >>

\* ---- line 14: with open("output.mp3", "wb") as f ----
OpenOK ==
    /\ pc = "open"
    /\ fileExists' = TRUE
    /\ fileContent' = Truncate(fileContent)
    /\ handle' = "open"
    /\ pc' = "loop"
    /\ UNCHANGED << run, prevExists, prevContent, delivered, writes, partial,
                    requests, printed, failedAt, exitCode >>

OpenFail ==
    /\ pc = "open"
    /\ Raise("open")
    /\ UNCHANGED << run, fileExists, fileContent, prevExists, prevContent,
                    handle, delivered, writes, partial, requests, printed >>

\* ---- lines 15-17: one iteration of the loop, the write succeeding ----
LoopChunk ==
    /\ pc = "loop"
    /\ Len(delivered) < MaxChunks
    /\ \E chunk \in Chunks :
          /\ delivered' = Append(delivered, chunk)
          /\ fileContent' = WriteChunk(fileContent, chunk)
          /\ writes' = writes + WriteCalls(chunk)
    /\ UNCHANGED << pc, run, fileExists, prevExists, prevContent, handle,
                    partial, requests, printed, failedAt, exitCode >>

\* Variant of WriteFail: no with-block, so f stays open when write raises.
WriteFailLeak ==
    /\ pc = "loop"
    /\ Len(delivered) < MaxChunks
    /\ \E chunk \in Chunks \ { <<>> } :
          /\ delivered' = Append(delivered, chunk)
          /\ \E p \in Prefixes(chunk) \ { chunk } :
                /\ partial' = p
                /\ fileContent' = fileContent \o p
    /\ writes' = writes + 1
    /\ Raise("write")
    /\ UNCHANGED << run, fileExists, prevExists, prevContent, handle,
                    requests, printed >>

\* ---- line 17: f.write raises, having put out some prefix of the chunk;
\*      the with-block closes f while the exception propagates ----
WriteFail ==
    /\ pc = "loop"
    /\ Len(delivered) < MaxChunks
    /\ \E chunk \in Chunks \ { <<>> } :
          /\ delivered' = Append(delivered, chunk)
          /\ \E p \in Prefixes(chunk) \ { chunk } :
                /\ partial' = p
                /\ fileContent' = fileContent \o p
    /\ writes' = writes + 1
    /\ handle' = "closed"
    /\ Raise("write")
    /\ UNCHANGED << run, fileExists, prevExists, prevContent, requests,
                    printed >>

\* Variant of IterFail: the exception is caught and the script goes on.
IterFailSwallowed ==
    /\ pc = "loop"
    /\ handle' = "closed"
    /\ failedAt' = "iter"
    /\ pc' = "print"
    /\ UNCHANGED << run, fileExists, fileContent, prevExists, prevContent,
                    delivered, writes, partial, requests, printed, exitCode >>

\* Variant of IterFail: the partial file is removed when the stream raises.
IterFailCleanup ==
    /\ pc = "loop"
    /\ handle' = "closed"
    /\ fileExists' = FALSE
    /\ fileContent' = <<>>
    /\ Raise("iter")
    /\ UNCHANGED << run, prevExists, prevContent, delivered, writes, partial,
                    requests, printed >>

\* ---- line 15: the stream raises instead of yielding; the with-block
\*      closes f while the exception propagates ----
IterFail ==
    /\ pc = "loop"
    /\ handle' = "closed"
    /\ Raise("iter")
    /\ UNCHANGED << run, fileExists, fileContent, prevExists, prevContent,
                    delivered, writes, partial, requests, printed >>

\* ---- lines 15, 14: the stream is exhausted; the with-block closes f ----
LoopEnd ==
    /\ pc = "loop"
    /\ handle' = "closed"
    /\ pc' = "print"
    /\ UNCHANGED << run, fileExists, fileContent, prevExists, prevContent,
                    delivered, writes, partial, requests, printed, failedAt,
                    exitCode >>

\* ---- line 19: print("Audio saved as output.mp3"), then exit 0 ----
PrintNotice ==
    /\ pc = "print"
    /\ printed' = printed + 1
    /\ pc' = "done"
    /\ exitCode' = 0
    /\ UNCHANGED << run, fileExists, fileContent, prevExists, prevContent,
                    handle, delivered, writes, partial, requests, failedAt >>

\* ---- the script is started again after a run has ended ----
Rerun ==
    /\ pc \in { "done", "failed" }
    /\ run < MaxRuns
    /\ run' = run + 1
    /\ pc' = "client"
    /\ prevExists' = fileExists
    /\ prevContent' = fileContent
    /\ handle' = "none"
    /\ delivered' = <<>>
    /\ writes' = 0
    /\ partial' = <<>>
    /\ requests' = <<>>
    /\ printed' = 0
    /\ failedAt' = "none"
    /\ exitCode' = -1
    /\ UNCHANGED << fileExists, fileContent >>

Next ==
    \/ ClientOK
    \/ ClientFail
    \/ ConvertOK
    \/ ConvertFail
    \/ OpenOK
    \/ OpenFail
    \/ LoopChunk
    \/ WriteFail
    \/ IterFail
    \/ LoopEnd
    \/ PrintNotice
    \/ Rerun

Spec == Init /\ [][Next]_vars

TypeOK ==
    /\ pc \in { "client", "convert", "open", "loop", "print", "done", "failed" }
    /\ run \in 1..MaxRuns
    /\ fileExists \in BOOLEAN
    /\ handle \in { "none", "open", "closed" }
    /\ Len(delivered) <= MaxChunks
    /\ printed \in 0..1
    /\ exitCode \in { -1, 0, 1 }

\* ---- what the claims speak about ----

\* The request as the literals of the script spell it.
ConfiguredRequest ==
    [ voice_id      |-> "JBFqnCBsd6RMkjVDRZzb",
      model_id      |-> "eleven_multilingual_v2",
      output_format |-> "mp3_44100_128",
      text          |-> "The first move is what sets everything in motion." ]

Ended == pc \in { "done", "failed" }

AllEmpty(cs) == \A i \in 1..Len(cs) : cs[i] = <<>>

\* The chunks whose write completed: all delivered ones, but for the last
\* one when its write raised.
WrittenChunks ==
    IF failedAt = "write"
    THEN NonEmpty(SubSeq(delivered, 1, Len(delivered) - 1))
    ELSE NonEmpty(delivered)

\* C1: when a run completes normally, output.mp3 holds exactly the
\* concatenation of the non-empty delivered chunks, in delivery order, and
\* f.write was called once per non-empty chunk and never for an empty one.
C1_OutputIsConcatOfNonEmpty ==
    pc = "done" =>
        /\ fileExists
        /\ fileContent = Concat(NonEmpty(delivered))
        /\ writes = Len(NonEmpty(delivered))

C1_Witness ==
    /\ pc = "done"
    /\ delivered = << <<1>>, <<>>, <<1, 2>> >>
    /\ fileContent = <<1, 1, 2>>
    /\ writes = 2

\* C2: when the stream raises after yielding N chunks (N >= 0), the file
\* exists and holds exactly the non-empty ones of those N chunks, the run has
\* failed with a non-zero exit, and the file is not touched afterwards.
C2_PartialFileOnStreamFailure ==
    /\ [](failedAt = "iter" =>
            /\ pc = "failed"
            /\ exitCode = 1
            /\ fileExists
            /\ fileContent = Concat(NonEmpty(delivered))
            /\ writes = Len(NonEmpty(delivered)))
    /\ [][failedAt = "iter" =>
            /\ fileContent' = fileContent
            /\ fileExists' = fileExists]_vars

C2_Witness ==
    /\ failedAt = "iter"
    /\ delivered = << <<1, 2>>, <<>> >>
    /\ fileContent = <<1, 2>>
    /\ ~prevExists

C2_WitnessNoChunk ==
    /\ failedAt = "iter"
    /\ delivered = <<>>
    /\ fileExists
    /\ fileContent = <<>>
    /\ prevContent = <<9, 1>>

\* C3: a second (or later) run that completes leaves only its own chunks in
\* the file: nothing of what an earlier run wrote remains.
C3_RerunOverwrites ==
    (run >= 2 /\ pc = "done") =>
        /\ fileContent = Concat(NonEmpty(delivered))
        /\ Len(fileContent) = Len(Concat(delivered))

C3_Witness ==
    /\ run = 2
    /\ pc = "done"
    /\ prevContent = <<1, 2, 1, 2, 1>>
    /\ delivered = << <<1>> >>
    /\ fileContent = <<1>>

\* C4: a run whose stream yields nothing, or only empty chunks, and that no
\* step fails ends normally with an existing file of length zero and the
\* confirmation printed; an empty chunk never reaches f.write.
C4_EmptyStreamGivesEmptyFile ==
    /\ (AllEmpty(delivered) /\ pc \in { "print", "done" }) =>
            /\ fileExists
            /\ Len(fileContent) = 0
            /\ writes = 0
            /\ failedAt = "none"
    /\ (AllEmpty(delivered) /\ pc = "done") =>
            /\ printed = 1
            /\ exitCode = 0
    /\ AllEmpty(delivered) => failedAt # "write"

C4_Witness ==
    /\ pc = "done"
    /\ delivered = <<>>
    /\ ~prevExists
    /\ fileExists
    /\ printed = 1

C4_WitnessOnlyEmptyChunks ==
    /\ pc = "done"
    /\ delivered = << <<>>, <<>> >>
    /\ prevContent = <<9, 1>>
    /\ fileContent = <<>>

\* C5 as stated: every run, however it ends, has issued exactly one request
\* carrying the four configured fields.
C5_EveryRunIssuesOneRequest ==
    Ended => (Len(requests) = 1 /\ requests[1] = ConfiguredRequest)

\* C5 amended: a run never issues more than one request, every request
\* carries exactly the four configured fields with the script's literals, and
\* every run in which the convert call was made has issued exactly one.
C5_AtMostOneRequestAsConfigured ==
    /\ Len(requests) <= 1
    /\ \A i \in 1..Len(requests) :
          /\ DOMAIN requests[i] =
                { "voice_id", "model_id", "output_format", "text" }
          /\ requests[i] = ConfiguredRequest
    /\ (pc \in { "open", "loop", "print", "done" }
          \/ (pc = "failed" /\ failedAt # "client")) => Len(requests) = 1
    /\ (pc \in { "client", "convert" }
          \/ (pc = "failed" /\ failedAt = "client")) => Len(requests) = 0

C5_Witness ==
    /\ pc = "done"
    /\ Len(requests) = 1
    /\ delivered # <<>>

C5_WitnessConvertRaised ==
    /\ failedAt = "convert"
    /\ Len(requests) = 1

\* C6: the confirmation is printed exactly once in a run that completes,
\* only after the loop has ended normally and the file is closed, and never
\* in a run in which any step failed.
C6_NoticeOnlyAfterNormalLoop ==
    /\ printed <= 1
    /\ pc = "done" => printed = 1
    /\ printed = 1 =>
            /\ pc = "done"
            /\ failedAt = "none"
            /\ handle = "closed"
            /\ fileContent = Concat(NonEmpty(delivered))
    /\ (failedAt # "none" \/ pc = "failed") => printed = 0

C6_Witness ==
    /\ pc = "done"
    /\ printed = 1
    /\ Len(delivered) = 2

C6_WitnessFailed ==
    /\ pc = "failed"
    /\ failedAt = "write"
    /\ printed = 0

\* C7: once the file has been opened its handle is closed in every state in
\* which the run has ended or has left the loop; the handle is open only
\* inside the loop, and it is closed before the confirmation is printed.
C7_HandleClosedOnEveryExit ==
    /\ (Ended /\ failedAt \in { "none", "iter", "write" }) => handle = "closed"
    /\ pc = "print" => handle = "closed"
    /\ printed > 0 => handle = "closed"
    /\ handle = "open" <=> pc = "loop"
    /\ handle = "none" <=>
          (pc \in { "client", "convert", "open" }
             \/ failedAt \in { "client", "convert", "open" })

C7_WitnessWriteRaised ==
    /\ failedAt = "write"
    /\ handle = "closed"
    /\ partial = <<1>>

C7_WitnessIterRaised ==
    /\ failedAt = "iter"
    /\ handle = "closed"
    /\ Len(delivered) = 1

\* C8: a failing step ends the run at once with exit code 1: nothing the
\* later steps would do has happened, no request was repeated, the only step
\* out of a failed run is a fresh start of the script, and a run exits 0 if
\* and only if it has ended and no step failed.
C8_FailFast ==
    /\ [](/\ failedAt # "none" <=> pc = "failed"
          /\ pc = "failed" <=> exitCode = 1
          /\ exitCode = 0 <=> (pc = "done" /\ failedAt = "none")
          /\ Len(requests) <= 1
          /\ failedAt = "client" =>
                /\ requests = <<>>
                /\ handle = "none"
                /\ fileExists = prevExists
                /\ fileContent = prevContent
          /\ failedAt = "convert" =>
                /\ handle = "none"
                /\ fileExists = prevExists
                /\ fileContent = prevContent
          /\ failedAt = "open" =>
                /\ handle = "none"
                /\ delivered = <<>>
          /\ failedAt # "none" =>
                /\ printed = 0
                /\ handle # "open")
    /\ [][pc = "failed" =>
            /\ run' = run + 1
            /\ pc' = "client"
            /\ fileContent' = fileContent
            /\ fileExists' = fileExists]_vars

C8_WitnessFailed ==
    /\ pc = "failed"
    /\ failedAt = "open"
    /\ exitCode = 1
    /\ run = 2

C8_WitnessDone ==
    /\ pc = "done"
    /\ exitCode = 0
    /\ failedAt = "none"
    /\ Len(delivered) = 3

\* C9: inside the loop the file holds exactly the concatenation of the
\* non-empty chunks consumed so far, with one write per such chunk; every
\* step taken from inside the loop consumes at most one chunk, never changes
\* the chunks already consumed and only appends to the file.
C9_LoopInvariant ==
    /\ [](pc = "loop" =>
            /\ fileContent = Concat(NonEmpty(delivered))
            /\ writes = Len(NonEmpty(delivered)))
    /\ [][pc = "loop" =>
            /\ IsPrefix(fileContent, fileContent')
            /\ IsPrefix(delivered, delivered')
            /\ Len(delivered') <= Len(delivered) + 1
            /\ writes' <= writes + 1
            /\ Len(fileContent') - Len(fileContent)
                  <= Len(Concat(delivered')) - Len(Concat(delivered))]_vars

C9_Witness ==
    /\ pc = "loop"
    /\ delivered = << <<1, 2>>, <<>>, <<1>> >>
    /\ fileContent = <<1, 2, 1>>
    /\ writes = 2

\* C10 as stated: a failure of the client construction or of the convert
\* call leaves the file as it was, and every failure after the convert call
\* has returned leaves a file holding only what this run wrote.
C10_AnyLaterFailureDestroys ==
    /\ failedAt \in { "client", "convert" } =>
            /\ fileExists = prevExists
            /\ fileContent = prevContent
    /\ failedAt \in { "open", "iter", "write" } =>
            /\ fileExists
            /\ fileContent = Concat(WrittenChunks) \o partial

\* C10 amended: the file is opened only after the client construction and
\* the convert call have returned; a failure of either, or of open itself,
\* leaves the file as it was; once open has succeeded, every later failure
\* leaves a file holding only what this run wrote.
C10_FileUntouchedUntilOpened ==
    /\ handle # "none" => (Len(requests) = 1 /\ failedAt \notin { "client", "convert" })
    /\ (pc \in { "client", "convert", "open" }
          \/ failedAt \in { "client", "convert", "open" }) =>
            /\ fileExists = prevExists
            /\ fileContent = prevContent
    /\ failedAt \in { "iter", "write" } =>
            /\ fileExists
            /\ fileContent = Concat(WrittenChunks) \o partial

C10_WitnessConvertRaised ==
    /\ failedAt = "convert"
    /\ fileContent = <<9, 1>>

C10_WitnessOpenRaised ==
    /\ failedAt = "open"
    /\ fileContent = <<9, 1>>

C10_WitnessFirstChunkRaised ==
    /\ failedAt = "iter"
    /\ delivered = <<>>
    /\ prevContent = <<9, 1>>
    /\ fileContent = <<>>

====
